---- MODULE Spec2Model ----
(***************************************************************************)
(* Model of the karpenter provisioning scheduler                           *)
(*   pkg/controllers/state/hostportusage.go   (HostPortUsage ledger)       *)
(*   pkg/controllers/provisioning/scheduling/scheduler.go  (Solve / add)   *)
(*   pkg/controllers/state/node.go            (NodeController.Reconcile)   *)
(***************************************************************************)
EXTENDS Integers, Sequences, FiniteSets, TLC

VARIABLES
    usage,              \* u.reserved of the original HostPortUsage
    copy,               \* c.reserved of the ledger returned by u.Copy()
    hpRet,              \* what the last ledger operation returned
    hpCall,             \* history: the last ledger operation and the ledger it was called on
    arrays,             \* the backing arrays of the reserved slices, by array id
    uSlice,             \* slice header of u.reserved: backing array and length
    cSlice,             \* slice header of c.reserved
    fnOp,               \* pure-function harness: the function to apply
    fnArgs,             \* pure-function harness: its arguments
    fnRes,              \* pure-function harness: its result, <<>> before it is applied
    nodeTemplates,      \* s.nodeTemplates
    instanceTypes,      \* s.instanceTypes, sorted by price in NewScheduler
    provisioners,       \* the limits of the provisioners NewScheduler was given
    cluster,            \* the nodes s.cluster.ForEachNode visits
    batch,              \* the pods Solve was called with, as passed
    pods,               \* the pods of the batch, as Relax has left them
    nodes,              \* s.nodes
    inflight,           \* s.inflight
    remainingResources, \* s.remainingResources
    q,                  \* the queue of Solve
    errors,             \* the errors map of Solve
    pc,                 \* "solve" while Solve is in its loop, "done" once it has returned
    ctxCancelled,       \* whether the context passed to Solve has been cancelled
    cancelledAt,        \* history: the value of attempts when the context was cancelled
    ret,                \* what Solve returned
    recorder,           \* the calls made on s.recorder
    attempts,           \* history: number of calls of s.add
    attemptLog,         \* history: per pod, the errors its calls of s.add returned
    lastAdd,            \* history: pod, outcome and target of the last call of s.add
    run,                \* replay specification: 1 in the first run, 2 in the second
    plan1,              \* replay specification: the plan the first run returned
    apiNodes,           \* names of the Node objects the API server holds
    clusterCalls,       \* the calls NodeController has made on c.cluster, in order
    reconciled          \* history: request, fetch outcome and return values of the last Reconcile

hpVars == <<usage, copy, hpRet, hpCall, arrays, uSlice, cSlice>>
fnVars == <<fnOp, fnArgs, fnRes>>
schedVars == <<nodeTemplates, instanceTypes, provisioners, cluster, batch, pods, nodes, inflight,
               remainingResources, q, errors, pc, ctxCancelled, cancelledAt, ret, recorder, attempts,
               attemptLog, lastAdd, run, plan1>>
recVars == <<apiNodes, clusterCalls, reconciled>>
vars == <<hpVars, fnVars, schedVars, recVars>>

(***************************************************************************)
(* Bounds                                                                  *)
(***************************************************************************)
MaxReserved == 3    \* entries a ledger may hold in the ledger specification
MaxPods == 3        \* pods in the batch given to Solve
MaxAttempts == 16   \* calls of s.add the model follows in one Solve
MaxTypes == 3       \* instance types in a list given to a pure function
MaxSpare == 1       \* spare capacity the runtime may give a newly allocated array
MaxClusterNodes == 3 \* cluster nodes NewScheduler visits when checked on its own
MaxCalls == 3       \* calls on c.cluster the model follows

(***************************************************************************)
(* net.IP as produced by net.ParseIP: a 16-byte value (IPv4 addresses in   *)
(* their IPv4-in-IPv6 form) or nil (len 0) when the text is not an address *)
(***************************************************************************)
NilIP == [len |-> 0, v4 |-> FALSE, addr |-> 0]
IPv4zero == [len |-> 16, v4 |-> TRUE, addr |-> 0]
IPv6unspecified == [len |-> 16, v4 |-> FALSE, addr |-> 0]

ParseIP(s) ==
    CASE s = "0.0.0.0" -> IPv4zero
      [] s = "::" -> IPv6unspecified
      [] s = "10.0.0.1" -> [len |-> 16, v4 |-> TRUE, addr |-> 1]
      [] s = "::ffff:10.0.0.1" -> [len |-> 16, v4 |-> TRUE, addr |-> 1]
      [] s = "10.0.0.2" -> [len |-> 16, v4 |-> TRUE, addr |-> 2]
      [] s = "::1" -> [len |-> 16, v4 |-> FALSE, addr |-> 1]
      [] OTHER -> NilIP

\* net.IP.Equal: same length compares bytes; a 4-byte and a 16-byte value
\* are equal when the long one is the IPv4-in-IPv6 form of the short one
IPEqual(ip, x) ==
    IF ip.len = x.len
    THEN ip.v4 = x.v4 /\ ip.addr = x.addr
    ELSE IF {ip.len, x.len} = {4, 16}
         THEN ip.v4 /\ x.v4 /\ ip.addr = x.addr
         ELSE FALSE

IsUnspecified(ip) == IPEqual(ip, IPv4zero) \/ IPEqual(ip, IPv6unspecified)

(***************************************************************************)
(* hostportusage.go                                                        *)
(***************************************************************************)
matchesIgnoringRhs(e, rhs) ==
    IF e.protocol # rhs.protocol THEN FALSE
    ELSE IF e.port # rhs.port THEN FALSE
    ELSE IF ~IPEqual(e.ip, rhs.ip) /\ ~IsUnspecified(e.ip) THEN FALSE
    ELSE TRUE

matches(e, rhs) ==
    IF e.protocol # rhs.protocol THEN FALSE
    ELSE IF e.port # rhs.port THEN FALSE
    ELSE IF ~IPEqual(e.ip, rhs.ip) /\ ~IsUnspecified(e.ip) /\ ~IsUnspecified(rhs.ip) THEN FALSE
    ELSE TRUE

\* getHostPorts over the flattened container ports of the pod
RECURSIVE getHostPortsFrom(_, _)
getHostPortsFrom(podName, ports) ==
    IF ports = <<>> THEN <<>>
    ELSE LET p == Head(ports)
             hostIP == IF p.hostIP = "" THEN "0.0.0.0" ELSE p.hostIP
         IN  IF p.hostPort = 0
             THEN getHostPortsFrom(podName, Tail(ports))
             ELSE <<[podName |-> podName, ip |-> ParseIP(hostIP),
                     port |-> p.hostPort, protocol |-> p.protocol]>>
                  \o getHostPortsFrom(podName, Tail(ports))

getHostPorts(pod) == getHostPortsFrom(pod.name, pod.ports)

\* the double loop of Add: does some new entry match some reserved entry
Conflicts(newUsage, reserved) ==
    \E i \in 1..Len(newUsage) : \E j \in 1..Len(reserved) :
        matches(newUsage[i], reserved[j])

AddReservedNoCheck(reserved, pod) == reserved \o getHostPorts(pod)

AddReservedUntilConflict(reserved, pod) ==
    LET newUsage == getHostPorts(pod)
        clear == {i \in 1..Len(newUsage) :
                    \A k \in 1..i : \A j \in 1..Len(reserved) : ~matches(newUsage[k], reserved[j])}
    IN  reserved \o SubSeq(newUsage, 1, Cardinality(clear))

\* HostPortUsage.Add: the ledger after the call
AddReserved(reserved, pod) ==
    IF Conflicts(getHostPorts(pod), reserved)
    THEN reserved
    ELSE reserved \o getHostPorts(pod)

\* HostPortUsage.Add: the error it returns
AddErr(reserved, pod) ==
    IF Conflicts(getHostPorts(pod), reserved) THEN "conflict" ELSE "nil"

\* HostPortUsage.DeletePod
RECURSIVE DeletePodReserved(_, _)
DeletePodReserved(reserved, key) ==
    IF reserved = <<>> THEN <<>>
    ELSE IF Head(reserved).podName # key
         THEN <<Head(reserved)>> \o DeletePodReserved(Tail(reserved), key)
         ELSE DeletePodReserved(Tail(reserved), key)

\* HostPortUsage.Copy
CopyReserved(reserved) == <<>> \o reserved

(***************************************************************************)
(* Inputs of the ledger specification                                      *)
(***************************************************************************)
PodNames == {"default/a", "default/b"}
HostIPs == {"", "::", "10.0.0.1", "10.0.0.2", "::ffff:10.0.0.1", "bogus"}
HostPortNumbers == {0, 80, 443}
Protocols == {"", "TCP", "UDP"}

ContainerPorts == [hostIP : HostIPs, hostPort : HostPortNumbers, protocol : Protocols]

CP(ip, port, proto) == [hostIP |-> ip, hostPort |-> port, protocol |-> proto]

\* the container-port lists of the pods the ledger specification adds
LedgerPortLists ==
    { <<>>,
      <<CP("10.0.0.1", 80, "TCP")>>,
      <<CP("", 80, "")>>,
      <<CP("10.0.0.2", 80, "TCP"), CP("10.0.0.1", 80, "TCP")>>,
      <<CP("", 0, "TCP"), CP("::", 80, "TCP")>> }

LedgerPods == [name : PodNames, ports : LedgerPortLists]

\* the container-port lists of the pods given to a single Add
AddPortLists ==
    { <<>>,
      <<CP("", 80, "TCP")>>,
      <<CP("", 80, "")>>,
      <<CP("10.0.0.1", 80, "TCP")>>,
      <<CP("10.0.0.1", 80, "UDP")>>,
      <<CP("10.0.0.2", 80, "TCP"), CP("10.0.0.1", 80, "")>>,
      <<CP("", 0, "TCP"), CP("::", 443, "TCP")>> }

AddPods == [name : PodNames, ports : AddPortLists]

Entries == {[podName |-> n, ip |-> ParseIP(IF p.hostIP = "" THEN "0.0.0.0" ELSE p.hostIP),
             port |-> p.hostPort, protocol |-> p.protocol] :
            n \in PodNames, p \in {cp \in ContainerPorts : cp.hostPort # 0}}

(***************************************************************************)
(* Go slices of entries: a slice header names a backing array and a length;*)
(* the capacity is the length of the backing array. append writes in place *)
(* while the capacity allows and otherwise moves to a newly allocated      *)
(* array, whose capacity the runtime may round up                          *)
(***************************************************************************)
ZeroEntry == [podName |-> "", ip |-> NilIP, port |-> 0, protocol |-> ""]

NilSlice == [array |-> 0, len |-> 0]

SliceRead(arrs, s) == IF s.array = 0 THEN <<>> ELSE SubSeq(arrs[s.array], 1, s.len)

SliceCap(arrs, s) == IF s.array = 0 THEN 0 ELSE Len(arrs[s.array])

\* append(s, elems...): the arrays and the slice header it returns
SliceAppend(arrs, s, elems, fresh, spare) ==
    IF elems = <<>> THEN [arrays |-> arrs, slice |-> s]
    ELSE IF s.len + Len(elems) <= SliceCap(arrs, s)
         THEN [arrays |-> [arrs EXCEPT ![s.array] =
                              [i \in 1..Len(@) |->
                                  IF i > s.len /\ i <= s.len + Len(elems)
                                  THEN elems[i - s.len] ELSE @[i]]],
               slice |-> [s EXCEPT !.len = @ + Len(elems)]]
         ELSE [arrays |-> [a \in (DOMAIN arrs) \cup {fresh} |->
                              IF a = fresh
                              THEN SliceRead(arrs, s) \o elems \o [i \in 1..spare |-> ZeroEntry]
                              ELSE arrs[a]],
               slice |-> [array |-> fresh, len |-> s.len + Len(elems)]]

\* an array id that is not in use
FreshArray(arrs) == CHOOSE a \in 1..3 : a \notin DOMAIN arrs /\ \A b \in 1..(a - 1) : b \in DOMAIN arrs

\* array ids are addresses and carry no meaning: the array of u is given
\* id 1 and another array of c the next id; arrays that neither ledger
\* references any more are dropped
UArray(u, c) == IF u.array = 0 THEN 0 ELSE 1
CArray(u, c) ==
    IF c.array = 0 THEN 0
    ELSE IF c.array = u.array THEN 1
    ELSE IF u.array = 0 THEN 1 ELSE 2
Collect(arrs, u, c) ==
    [a \in {UArray(u, c), CArray(u, c)} \ {0} |->
        IF a = UArray(u, c) THEN arrs[u.array] ELSE arrs[c.array]]

\* the memory after an operation that left the arrays arrs and the slice
\* headers u and c; the entries of each ledger are read through its header
Settle(arrs, u, c) ==
    /\ uSlice' = [array |-> UArray(u, c), len |-> u.len]
    /\ cSlice' = [array |-> CArray(u, c), len |-> c.len]
    /\ arrays' = Collect(arrs, u, c)
    /\ usage' = SliceRead(arrays', uSlice')
    /\ copy' = SliceRead(arrays', cSlice')

\* Copy: the copy shares the slice header, and so the array, of the original
CopySliceShared(arrs, s, fresh, spare) == [arrays |-> arrs, slice |-> s]

\* Copy: append([]entry{}, u.reserved...)
CopySlice(arrs, s, fresh, spare) ==
    SliceAppend(arrs, NilSlice, CopyReserved(SliceRead(arrs, s)), fresh, spare)

\* Add on the ledger whose slice is s: u.reserved = append(u.reserved, newUsage...)
\* when no entry conflicts
AddSlice(arrs, s, pod, fresh, spare) ==
    LET reserved == SliceRead(arrs, s)
        after == AddReserved(reserved, pod)
    IN  SliceAppend(arrs, s, SubSeq(after, Len(reserved) + 1, Len(after)), fresh, spare)

\* DeletePod on the ledger whose slice is s: remaining starts nil and is
\* appended to, then u.reserved = remaining
DeletePodSlice(arrs, s, key, fresh, spare) ==
    SliceAppend(arrs, NilSlice, DeletePodReserved(SliceRead(arrs, s), key), fresh, spare)

(***************************************************************************)
(* Ledger specification: Add, DeletePod and Copy on a ledger and its copy  *)
(***************************************************************************)
NoCall == [op |-> "none", on |-> ""]

HPInit ==
    /\ usage = <<>>
    /\ copy = <<>>
    /\ hpRet = "none"
    /\ hpCall = NoCall
    /\ arrays = <<>>
    /\ uSlice = NilSlice
    /\ cSlice = NilSlice

AddOriginal ==
    \E pod \in LedgerPods, spare \in 0..MaxSpare :
        LET r == AddSlice(arrays, uSlice, pod, FreshArray(arrays), spare)
        IN  /\ Len(usage) + Len(getHostPorts(pod)) <= MaxReserved
            /\ Settle(r.arrays, r.slice, cSlice)
            /\ hpRet' = AddErr(usage, pod)
            /\ hpCall' = [op |-> "Add", on |-> "u"]

AddCopy ==
    \E pod \in LedgerPods, spare \in 0..MaxSpare :
        LET r == AddSlice(arrays, cSlice, pod, FreshArray(arrays), spare)
        IN  /\ Len(copy) + Len(getHostPorts(pod)) <= MaxReserved
            /\ Settle(r.arrays, uSlice, r.slice)
            /\ hpRet' = AddErr(copy, pod)
            /\ hpCall' = [op |-> "Add", on |-> "c"]

DeletePodOriginal ==
    \E key \in PodNames, spare \in 0..MaxSpare :
        LET r == DeletePodSlice(arrays, uSlice, key, FreshArray(arrays), spare)
        IN  /\ Settle(r.arrays, r.slice, cSlice)
            /\ hpRet' = "deleted"
            /\ hpCall' = [op |-> "DeletePod", on |-> "u"]

DeletePodCopy ==
    \E key \in PodNames, spare \in 0..MaxSpare :
        LET r == DeletePodSlice(arrays, cSlice, key, FreshArray(arrays), spare)
        IN  /\ Settle(r.arrays, uSlice, r.slice)
            /\ hpRet' = "deleted"
            /\ hpCall' = [op |-> "DeletePod", on |-> "c"]

\* c = u.Copy()
Copy ==
    \E spare \in 0..MaxSpare :
        LET r == CopySlice(arrays, uSlice, FreshArray(arrays), spare)
        IN  /\ Settle(r.arrays, uSlice, r.slice)
            /\ hpRet' = "copied"
            /\ hpCall' = [op |-> "Copy", on |-> "u"]

(***************************************************************************)
(* Resource lists (v1.ResourceList): a function from the named resources   *)
(* it holds to quantities; nil and the empty list are both <<>>            *)
(***************************************************************************)
Resources == {"cpu", "memory"}

RL(c, m) == [r \in Resources |-> IF r = "cpu" THEN c ELSE m]

\* indexing a ResourceList: a resource it does not hold reads as zero
Quantity(rl, r) == IF r \in DOMAIN rl THEN rl[r] ELSE 0

\* resources.Cmp
Cmp(lhs, rhs) == IF lhs < rhs THEN -1 ELSE IF lhs > rhs THEN 1 ELSE 0

Max2(a, b) == IF a > b THEN a ELSE b

\* resources.MaxResources over the Resources() of a list of instance types
RECURSIVE MaxResources(_)
MaxResources(its) ==
    IF its = <<>> THEN <<>>
    ELSE LET rest == MaxResources(Tail(its))
             rl == Head(its).resources
         IN  [r \in (DOMAIN rl) \cup (DOMAIN rest) |-> Max2(Quantity(rl, r), Quantity(rest, r))]

\* resources.Subtract
Subtract(lhs, rhs) == [r \in DOMAIN lhs |-> lhs[r] - Quantity(rhs, r)]

\* resources.Merge of two full request vectors
Merge(a, b) == [r \in Resources |-> Quantity(a, r) + Quantity(b, r)]

\* resources.Fits
Fits(candidate, total) == \A r \in Resources : Quantity(candidate, r) <= Quantity(total, r)

(***************************************************************************)
(* scheduler.go: subtractMax and filterByRemainingResources                *)
(***************************************************************************)
subtractFirst(remaining, its) ==
    IF Len(its) = 0 THEN remaining
    ELSE [k \in DOMAIN remaining |-> remaining[k] - Quantity(Head(its).resources, k)]

subtractMax(remaining, its) ==
    IF Len(its) = 0 THEN remaining
    ELSE LET itResources == MaxResources(its)
         IN  [k \in DOMAIN remaining |-> remaining[k] - Quantity(itResources, k)]

RECURSIVE filterStrictlyBelow(_, _)
filterStrictlyBelow(its, remaining) ==
    IF its = <<>> THEN <<>>
    ELSE LET it == Head(its)
             viableInstance ==
                 \A resourceName \in DOMAIN remaining :
                     Cmp(Quantity(it.resources, resourceName), remaining[resourceName]) < 0
         IN  IF viableInstance
             THEN <<it>> \o filterStrictlyBelow(Tail(its), remaining)
             ELSE filterStrictlyBelow(Tail(its), remaining)

RECURSIVE filterAnyResourceFits(_, _)
filterAnyResourceFits(its, remaining) ==
    IF its = <<>> THEN <<>>
    ELSE LET it == Head(its)
             viableInstance ==
                 \E resourceName \in DOMAIN remaining :
                     ~(Cmp(Quantity(it.resources, resourceName), remaining[resourceName]) > 0)
         IN  IF viableInstance
             THEN <<it>> \o filterAnyResourceFits(Tail(its), remaining)
             ELSE filterAnyResourceFits(Tail(its), remaining)

RECURSIVE filterByRemainingResources(_, _)
filterByRemainingResources(its, remaining) ==
    IF its = <<>> THEN <<>>
    ELSE LET it == Head(its)
             viableInstance ==
                 \A resourceName \in DOMAIN remaining :
                     ~(Cmp(Quantity(it.resources, resourceName), remaining[resourceName]) > 0)
         IN  IF viableInstance
             THEN <<it>> \o filterByRemainingResources(Tail(its), remaining)
             ELSE filterByRemainingResources(Tail(its), remaining)

(***************************************************************************)
(* Inputs of the scheduler                                                 *)
(***************************************************************************)
IType(n, p, rl) == [name |-> n, price |-> p, resources |-> rl]

\* the cloud provider's instance types; "small" reports no memory, and
\* "medium" and "large" have the same price
InstanceTypeCatalog ==
    { IType("small", 1, [r \in {"cpu"} |-> 2]),
      IType("medium", 2, RL(4, 8)),
      IType("large", 2, RL(8, 4)) }

Orders(S) ==
    {s \in [1..Cardinality(S) -> S] : \A i, j \in DOMAIN s : i # j => s[i] # s[j]}

\* sort.Slice by Price(): ascending in price, ties in any order
SortedByPrice(S) ==
    {s \in Orders(S) : \A i, j \in DOMAIN s : i < j => ~(s[j].price < s[i].price)}

Template(n, p) == [name |-> n, provisioner |-> p]

NodeTemplateLists ==
    { <<Template("t1", "p1")>>,
      <<Template("t1", "p1"), Template("t2", "p2")>> }

\* daemonOverhead[nodeTemplate]
DaemonOverheadOf(nodeTemplate) ==
    IF nodeTemplate.name = "t2" THEN RL(1, 0) ELSE RL(0, 0)

\* Spec.Limits.Resources per provisioner; a provisioner that is not in the
\* domain has nil Limits
ProvisionerLimits ==
    { <<>>,
      [p \in {"p1"} |-> RL(8, 4)],
      [p \in {"p1", "p2"} |-> IF p = "p1" THEN [r \in {"cpu"} |-> 4] ELSE [r \in {"cpu"} |-> 9]] }

ClusterNode(l, cap, avail) == [label |-> l, capacity |-> cap, available |-> avail]

\* cluster.ForEachNode, in the order it visits the nodes
ClusterNodeLists ==
    { <<>>,
      <<ClusterNode("", RL(4, 4), RL(4, 4)), ClusterNode("p1", RL(6, 4), RL(2, 4))>>,
      <<ClusterNode("gone", RL(4, 4), RL(4, 4))>> }

PodShape(c, m, ports, sel, prefs) ==
    [requests |-> RL(c, m), ports |-> ports, selector |-> sel, prefs |-> prefs]

PodShapes ==
    { PodShape(1, 0, <<>>, "", <<>>),
      PodShape(3, 0, <<CP("", 80, "TCP")>>, "", <<>>),
      PodShape(1, 0, <<>>, "", <<"nowhere">>),
      PodShape(2, 0, <<>>, "", <<"nowhere", "p2">>),
      PodShape(5, 1, <<>>, "", <<>>),
      PodShape(9, 0, <<>>, "", <<"nowhere">>),
      PodShape(1, 0, <<>>, "p2", <<>>) }

PodNameOf(i) == CASE i = 1 -> "default/a" [] i = 2 -> "default/b" [] i = 3 -> "default/c"
                  [] i = 4 -> "default/d" [] OTHER -> "default/e"

BatchesOf(shapes) ==
    UNION { {[i \in 1..n |-> [name |-> PodNameOf(i), requests |-> b[i].requests,
                              ports |-> b[i].ports, selector |-> b[i].selector,
                              prefs |-> b[i].prefs]] : b \in [1..n -> shapes]}
            : n \in 1..MaxPods }

Batches == BatchesOf(PodShapes)

\* the batches of one to m pods of the given shapes
BatchesUpTo(shapes, m) ==
    UNION { {[i \in 1..n |-> [name |-> PodNameOf(i), requests |-> b[i].requests,
                              ports |-> b[i].ports, selector |-> b[i].selector,
                              prefs |-> b[i].prefs]] : b \in [1..n -> shapes]}
            : n \in 1..m }

(***************************************************************************)
(* Preferences.Relax: removes one soft constraint, reports whether it did  *)
(***************************************************************************)
CanRelax(pod) == pod.prefs # <<>>
Relaxed(pod) == IF CanRelax(pod) THEN [pod EXCEPT !.prefs = Tail(@)] ELSE pod

(***************************************************************************)
(* Queue: NewQueue, Pop, Push, List                                        *)
(***************************************************************************)
NewQueue(ps) == [pods |-> [i \in 1..Len(ps) |-> i], failed |-> <<>>]
QueuePopOk(queue) == queue.pods # <<>>
QueuePopped(queue) == [queue EXCEPT !.pods = Tail(@)]
QueuePush(queue, pod, relaxed) ==
    IF relaxed THEN [queue EXCEPT !.pods = Append(@, pod)]
    ELSE [queue EXCEPT !.failed = Append(@, pod)]
QueueList(queue) == queue.failed \o queue.pods

(***************************************************************************)
(* Requirements: the label a pod selects (hard) or prefers (soft, until    *)
(* relaxed) against the provisioner-name label of the node                 *)
(***************************************************************************)
Compatible(pod, provisionerName) ==
    /\ pod.selector # "" => pod.selector = provisionerName
    /\ \A i \in 1..Len(pod.prefs) : pod.prefs[i] = provisionerName

(***************************************************************************)
(* InFlightNode: NewInFlightNode and Add                                   *)
(***************************************************************************)
NewInFlightNode(node, nodeTemplate, n) ==
    [name |-> n, provisioner |-> node.label,
     available |-> Subtract(node.available, DaemonOverheadOf(nodeTemplate)),
     hostPorts |-> <<>>, pods |-> <<>>]

InFlightAddErr(node, pod) ==
    IF ~Compatible(pod, node.provisioner) THEN "incompatible requirements"
    ELSE IF Conflicts(getHostPorts(pod), node.hostPorts) THEN "host port conflict"
    ELSE IF ~Fits(pod.requests, node.available) THEN "exceeds node resources"
    ELSE "nil"

InFlightAdded(node, podIdx, pod) ==
    [node EXCEPT !.pods = Append(@, podIdx),
                 !.available = Subtract(@, pod.requests),
                 !.hostPorts = AddReserved(@, pod)]

(***************************************************************************)
(* Node (proposed): NewNode and Add                                        *)
(***************************************************************************)
NewNode(nodeTemplate, its, n) ==
    [id |-> n, template |-> nodeTemplate, pods |-> <<>>,
     InstanceTypeOptions |-> its,
     requests |-> DaemonOverheadOf(nodeTemplate), hostPorts |-> <<>>]

RECURSIVE filterInstanceTypes(_, _)
filterInstanceTypes(its, requests) ==
    IF its = <<>> THEN <<>>
    ELSE IF Fits(requests, Head(its).resources)
         THEN <<Head(its)>> \o filterInstanceTypes(Tail(its), requests)
         ELSE filterInstanceTypes(Tail(its), requests)

NodeAddErr(node, pod) ==
    IF ~Compatible(pod, node.template.provisioner) THEN "incompatible requirements"
    ELSE IF filterInstanceTypes(node.InstanceTypeOptions, Merge(node.requests, pod.requests)) = <<>>
         THEN "no instance type satisfied resources"
    ELSE IF Conflicts(getHostPorts(pod), node.hostPorts) THEN "host port conflict"
    ELSE "nil"

NodeAdded(node, podIdx, pod) ==
    [node EXCEPT !.pods = Append(@, podIdx),
                 !.InstanceTypeOptions = filterInstanceTypes(@, Merge(node.requests, pod.requests)),
                 !.requests = Merge(@, pod.requests),
                 !.hostPorts = AddReserved(@, pod)]

(***************************************************************************)
(* NewScheduler                                                            *)
(***************************************************************************)
\* lo.KeyBy(nodeTemplates, provisioner name): the last template of a name wins
NamedNodeTemplate(templates, name) ==
    LET idx == {i \in 1..Len(templates) : templates[i].provisioner = name}
    IN  templates[CHOOSE i \in idx : \A j \in idx : j <= i]

IsKnownTemplate(templates, name) == \E i \in 1..Len(templates) : templates[i].provisioner = name

\* remainingResources[name], nil when the map has no entry
Remaining(rr, name) == IF name \in DOMAIN rr THEN rr[name] ELSE <<>>

SetRemaining(rr, name, rl) == [p \in (DOMAIN rr) \cup {name} |-> IF p = name THEN rl ELSE rr[p]]

RECURSIVE ForEachNodeChargesUnknown(_, _, _)
ForEachNodeChargesUnknown(clusterNodes, templates, acc) ==
    IF clusterNodes = <<>> THEN acc
    ELSE LET node == Head(clusterNodes)
             name == node.label
             charged == SetRemaining(acc.remainingResources, name,
                            Subtract(Remaining(acc.remainingResources, name), node.capacity))
         IN  IF name = ""
             THEN ForEachNodeChargesUnknown(Tail(clusterNodes), templates, acc)
             ELSE IF ~IsKnownTemplate(templates, name)
                  THEN ForEachNodeChargesUnknown(Tail(clusterNodes), templates,
                           [acc EXCEPT !.remainingResources = charged])
                  ELSE ForEachNodeChargesUnknown(Tail(clusterNodes), templates,
                           [inflight |-> Append(acc.inflight,
                                            NewInFlightNode(node, NamedNodeTemplate(templates, name),
                                                            Len(acc.inflight) + 1)),
                            remainingResources |-> charged])

\* the ForEachNode callback applied to the nodes of the cluster in turn
RECURSIVE ForEachNode(_, _, _)
ForEachNode(clusterNodes, templates, acc) ==
    IF clusterNodes = <<>> THEN acc
    ELSE LET node == Head(clusterNodes)
             name == node.label
         IN  IF name = "" \/ ~IsKnownTemplate(templates, name)
             THEN ForEachNode(Tail(clusterNodes), templates, acc)
             ELSE ForEachNode(Tail(clusterNodes), templates,
                     [inflight |-> Append(acc.inflight,
                                      NewInFlightNode(node, NamedNodeTemplate(templates, name),
                                                      Len(acc.inflight) + 1)),
                      remainingResources |->
                          SetRemaining(acc.remainingResources, name,
                              Subtract(Remaining(acc.remainingResources, name), node.capacity))])

NewScheduler(templates, limits, clusterNodes) ==
    ForEachNode(clusterNodes, templates, [inflight |-> <<>>, remainingResources |-> limits])

(***************************************************************************)
(* Scheduler.add                                                           *)
(***************************************************************************)
UnsortedNodes(ns) ==
    {[i \in 1..Len(ns) |-> ns[perm[i]]] : perm \in Orders(1..Len(ns))}

\* sort.Slice(s.nodes, fewer pods first): ascending in len(Pods); the sort
\* is not stable, so nodes with equally many pods end up in any order
SortedByPods(ns) ==
    {[i \in 1..Len(ns) |-> ns[perm[i]]] :
        perm \in {pm \in Orders(1..Len(ns)) :
                    \A i, j \in 1..Len(ns) :
                        i < j => ~(Len(ns[pm[j]].pods) < Len(ns[pm[i]].pods))}}

FirstIndex(n, Accepts(_)) ==
    IF \E i \in 1..n : Accepts(i)
    THEN CHOOSE i \in 1..n : Accepts(i) /\ \A j \in 1..(i - 1) : ~Accepts(j)
    ELSE 0

LimitError == "all available instance types exceed provisioner limits"

RECURSIVE addNewNodeStopAtLimit(_, _, _, _, _, _)
addNewNodeStopAtLimit(k, errs, st, podIdx, pod, cfg) ==
    IF k > Len(cfg.nodeTemplates)
    THEN [err |-> errs, kind |-> IF errs = <<>> THEN "unplaced" ELSE "error", target |-> 0,
          nodes |-> st.nodes, inflight |-> st.inflight,
          remainingResources |-> st.remainingResources]
    ELSE LET nodeTemplate == cfg.nodeTemplates[k]
             limited == nodeTemplate.provisioner \in DOMAIN st.remainingResources
             its == IF limited
                    THEN filterByRemainingResources(cfg.instanceTypes,
                             st.remainingResources[nodeTemplate.provisioner])
                    ELSE cfg.instanceTypes
             node == NewNode(nodeTemplate, its, Len(st.nodes) + 1)
         IN  IF limited /\ Len(its) = 0
             THEN [err |-> Append(errs, LimitError), kind |-> "error", target |-> 0,
                   nodes |-> st.nodes, inflight |-> st.inflight,
                   remainingResources |-> st.remainingResources]
             ELSE IF NodeAddErr(node, pod) = "nil"
                  THEN LET added == NodeAdded(node, podIdx, pod)
                       IN  [err |-> <<>>, kind |-> "new", target |-> k,
                            nodes |-> Append(st.nodes, added),
                            inflight |-> st.inflight,
                            remainingResources |->
                                SetRemaining(st.remainingResources, nodeTemplate.provisioner,
                                    subtractMax(Remaining(st.remainingResources, nodeTemplate.provisioner),
                                                added.InstanceTypeOptions))]
                  ELSE addNewNodeStopAtLimit(k + 1, Append(errs, NodeAddErr(node, pod)), st, podIdx,
                                             pod, cfg)

RECURSIVE addNewNodeChargesRejected(_, _, _, _, _, _)
addNewNodeChargesRejected(k, errs, st, podIdx, pod, cfg) ==
    IF k > Len(cfg.nodeTemplates)
    THEN [err |-> errs, kind |-> IF errs = <<>> THEN "unplaced" ELSE "error", target |-> 0,
          nodes |-> st.nodes, inflight |-> st.inflight,
          remainingResources |-> st.remainingResources]
    ELSE LET nodeTemplate == cfg.nodeTemplates[k]
             limited == nodeTemplate.provisioner \in DOMAIN st.remainingResources
             its == IF limited
                    THEN filterByRemainingResources(cfg.instanceTypes,
                             st.remainingResources[nodeTemplate.provisioner])
                    ELSE cfg.instanceTypes
             node == NewNode(nodeTemplate, its, Len(st.nodes) + 1)
             charged == SetRemaining(st.remainingResources, nodeTemplate.provisioner,
                            subtractMax(Remaining(st.remainingResources, nodeTemplate.provisioner),
                                        node.InstanceTypeOptions))
         IN  IF limited /\ Len(its) = 0
             THEN addNewNodeChargesRejected(k + 1, Append(errs, LimitError), st, podIdx, pod, cfg)
             ELSE IF NodeAddErr(node, pod) = "nil"
                  THEN LET added == NodeAdded(node, podIdx, pod)
                       IN  [err |-> <<>>, kind |-> "new", target |-> k,
                            nodes |-> Append(st.nodes, added),
                            inflight |-> st.inflight,
                            remainingResources |->
                                SetRemaining(st.remainingResources, nodeTemplate.provisioner,
                                    subtractMax(Remaining(st.remainingResources, nodeTemplate.provisioner),
                                                added.InstanceTypeOptions))]
                  ELSE addNewNodeChargesRejected(k + 1, Append(errs, NodeAddErr(node, pod)),
                           [st EXCEPT !.remainingResources = charged], podIdx, pod, cfg)

\* the loop over s.nodeTemplates from template k on, errs collected so far;
\* errs is nil when no template was tried
RECURSIVE addNewNode(_, _, _, _, _, _)
addNewNode(k, errs, st, podIdx, pod, cfg) ==
    IF k > Len(cfg.nodeTemplates)
    THEN [err |-> errs, kind |-> IF errs = <<>> THEN "unplaced" ELSE "error", target |-> 0,
          nodes |-> st.nodes, inflight |-> st.inflight,
          remainingResources |-> st.remainingResources]
    ELSE LET nodeTemplate == cfg.nodeTemplates[k]
             limited == nodeTemplate.provisioner \in DOMAIN st.remainingResources
             its == IF limited
                    THEN filterByRemainingResources(cfg.instanceTypes,
                             st.remainingResources[nodeTemplate.provisioner])
                    ELSE cfg.instanceTypes
             node == NewNode(nodeTemplate, its, Len(st.nodes) + 1)
         IN  IF limited /\ Len(its) = 0
             THEN addNewNode(k + 1, Append(errs, LimitError), st, podIdx, pod, cfg)
             ELSE IF NodeAddErr(node, pod) = "nil"
                  THEN LET added == NodeAdded(node, podIdx, pod)
                       IN  [err |-> <<>>, kind |-> "new", target |-> k,
                            nodes |-> Append(st.nodes, added),
                            inflight |-> st.inflight,
                            remainingResources |->
                                SetRemaining(st.remainingResources, nodeTemplate.provisioner,
                                    subtractMax(Remaining(st.remainingResources, nodeTemplate.provisioner),
                                                added.InstanceTypeOptions))]
                  ELSE addNewNode(k + 1, Append(errs, NodeAddErr(node, pod)), st, podIdx, pod, cfg)

addProposedFirst(st, sorted, podIdx, pod, cfg) ==
    LET i == FirstIndex(Len(st.inflight), LAMBDA n : InFlightAddErr(st.inflight[n], pod) = "nil")
        j == FirstIndex(Len(sorted), LAMBDA n : NodeAddErr(sorted[n], pod) = "nil")
    IN  IF j # 0
        THEN [err |-> <<>>, kind |-> "existing", target |-> sorted[j].id,
              nodes |-> [sorted EXCEPT ![j] = NodeAdded(@, podIdx, pod)],
              inflight |-> st.inflight,
              remainingResources |-> st.remainingResources]
        ELSE IF i # 0
             THEN [err |-> <<>>, kind |-> "inflight", target |-> i, nodes |-> st.nodes,
                   inflight |-> [st.inflight EXCEPT ![i] = InFlightAdded(@, podIdx, pod)],
                   remainingResources |-> st.remainingResources]
             ELSE addNewNode(1, <<>>, [st EXCEPT !.nodes = sorted], podIdx, pod, cfg)

\* add once s.nodes has been sorted into the order `sorted`
addSorted(st, sorted, podIdx, pod, cfg) ==
    LET i == FirstIndex(Len(st.inflight), LAMBDA n : InFlightAddErr(st.inflight[n], pod) = "nil")
        j == FirstIndex(Len(sorted), LAMBDA n : NodeAddErr(sorted[n], pod) = "nil")
    IN  IF i # 0
        THEN [err |-> <<>>, kind |-> "inflight", target |-> i, nodes |-> st.nodes,
              inflight |-> [st.inflight EXCEPT ![i] = InFlightAdded(@, podIdx, pod)],
              remainingResources |-> st.remainingResources]
        ELSE IF j # 0
             THEN [err |-> <<>>, kind |-> "existing", target |-> sorted[j].id,
                   nodes |-> [sorted EXCEPT ![j] = NodeAdded(@, podIdx, pod)],
                   inflight |-> st.inflight,
                   remainingResources |-> st.remainingResources]
             ELSE addNewNode(1, <<>>, [st EXCEPT !.nodes = sorted], podIdx, pod, cfg)

\* the outcomes of s.add(pod): one per order the sort may leave s.nodes in
add(st, podIdx, pod, cfg) ==
    {addSorted(st, sorted, podIdx, pod, cfg) : sorted \in SortedByPods(st.nodes)}

(***************************************************************************)
(* Scheduler state and Scheduler.Solve                                     *)
(***************************************************************************)
SchedulerState == [nodes |-> nodes, inflight |-> inflight, remainingResources |-> remainingResources]
SchedulerConfig == [nodeTemplates |-> nodeTemplates, instanceTypes |-> instanceTypes]

NoAdd == [pod |-> 0, kind |-> "none", target |-> 0]

\* the state NewScheduler returns for the inputs, before the first Solve
Constructed(templates, its, limits, clusterNodes, batchPods) ==
    /\ nodeTemplates = templates
    /\ instanceTypes = its
    /\ provisioners = limits
    /\ cluster = clusterNodes
    /\ batch = batchPods
    /\ pods = batchPods
    /\ nodes = <<>>
    /\ inflight = NewScheduler(templates, limits, clusterNodes).inflight
    /\ remainingResources = NewScheduler(templates, limits, clusterNodes).remainingResources
    /\ q = NewQueue(batchPods)
    /\ errors = [i \in 1..Len(batchPods) |-> <<"unset">>]
    /\ pc = "solve"
    /\ ctxCancelled = FALSE
    /\ cancelledAt = -1
    /\ ret = [nodes |-> <<>>, err |-> "none"]
    /\ recorder = [PodShouldSchedule |-> <<>>, PodFailedToSchedule |-> <<>>]
    /\ attempts = 0
    /\ attemptLog = [i \in 1..Len(batchPods) |-> <<>>]
    /\ lastAdd = NoAdd
    /\ run = 1
    /\ plan1 = <<>>

SchedInit ==
    \E templates \in NodeTemplateLists, its \in SortedByPrice(InstanceTypeCatalog),
       limits \in ProvisionerLimits, clusterNodes \in ClusterNodeLists, batchPods \in Batches :
        Constructed(templates, its, limits, clusterNodes, batchPods)

\* errors[pod] = s.add(pod)
ErrorsKeepFirst(errs, podIdx, err) ==
    IF errs[podIdx] = <<"unset">> THEN [errs EXCEPT ![podIdx] = err] ELSE errs

ErrorsAfter(errs, podIdx, err) == [errs EXCEPT ![podIdx] = err]

\* the second argument of q.Push(pod, relaxed)
PushAlwaysRelaxed(pod) == TRUE

PushRelaxed(pod) == CanRelax(pod)

\* one iteration of the loop of Solve: Pop, add, and on failure Relax and Push
SolveLoop ==
    /\ pc = "solve"
    /\ QueuePopOk(q)
    /\ attempts < MaxAttempts
    /\ LET podIdx == Head(q.pods)
           pod == pods[podIdx]
       IN  \E out \in add(SchedulerState, podIdx, pod, SchedulerConfig) :
               /\ nodes' = out.nodes
               /\ inflight' = out.inflight
               /\ remainingResources' = out.remainingResources
               /\ errors' = ErrorsAfter(errors, podIdx, out.err)
               /\ IF out.err = <<>>
                  THEN /\ q' = QueuePopped(q)
                       /\ pods' = pods
                  ELSE /\ q' = QueuePush(QueuePopped(q), podIdx, PushRelaxed(pod))
                       /\ pods' = [pods EXCEPT ![podIdx] = Relaxed(pod)]
               /\ attempts' = attempts + 1
               /\ attemptLog' = [attemptLog EXCEPT ![podIdx] = Append(@, out.err)]
               /\ lastAdd' = [pod |-> podIdx, kind |-> out.kind, target |-> out.target]
    /\ UNCHANGED <<nodeTemplates, instanceTypes, provisioners, cluster, batch, pc, ctxCancelled,
                   cancelledAt, ret, recorder, run, plan1>>

\* recordSchedulingResults: the calls made on the recorder
RECURSIVE ShouldSchedule(_)
ShouldSchedule(ns) ==
    IF ns = <<>> THEN <<>>
    ELSE [i \in 1..Len(Head(ns).pods) |-> [pod |-> Head(ns).pods[i], node |-> Head(ns).name]]
         \o ShouldSchedule(Tail(ns))

FailedToSchedule(failedToSchedule, errs) ==
    [i \in 1..Len(failedToSchedule) |->
        [pod |-> failedToSchedule[i], err |-> errs[failedToSchedule[i]]]]

SolveReturnOnCancel ==
    /\ pc = "solve"
    /\ ~QueuePopOk(q) \/ ctxCancelled
    /\ recorder' = [PodShouldSchedule |-> ShouldSchedule(inflight),
                    PodFailedToSchedule |-> FailedToSchedule(QueueList(q), errors)]
    /\ ret' = [nodes |-> nodes, err |-> IF ctxCancelled THEN "context canceled" ELSE "nil"]
    /\ pc' = "done"
    /\ UNCHANGED <<nodeTemplates, instanceTypes, provisioners, cluster, batch, pods, nodes, inflight,
                   remainingResources, q, errors, ctxCancelled, cancelledAt, attempts, attemptLog,
                   lastAdd, run, plan1>>

\* Pop reports an empty queue: record the results and return
SolveReturn ==
    /\ pc = "solve"
    /\ ~QueuePopOk(q)
    /\ recorder' = [PodShouldSchedule |-> ShouldSchedule(inflight),
                    PodFailedToSchedule |-> FailedToSchedule(QueueList(q), errors)]
    /\ ret' = [nodes |-> nodes, err |-> "nil"]
    /\ pc' = "done"
    /\ UNCHANGED <<nodeTemplates, instanceTypes, provisioners, cluster, batch, pods, nodes, inflight,
                   remainingResources, q, errors, ctxCancelled, cancelledAt, attempts, attemptLog,
                   lastAdd, run, plan1>>

\* the caller cancels the context it passed to Solve
CancelContext ==
    /\ pc = "solve"
    /\ ~ctxCancelled
    /\ ctxCancelled' = TRUE
    /\ cancelledAt' = attempts
    /\ UNCHANGED <<nodeTemplates, instanceTypes, provisioners, cluster, batch, pods, nodes, inflight,
                   remainingResources, q, errors, pc, ret, recorder, attempts, attemptLog,
                   lastAdd, run, plan1>>

\* a second scheduler is constructed from the same inputs and Solve runs again
\* on an identical batch; the plan of the first run is kept for comparison
Replay ==
    /\ pc = "done"
    /\ run = 1
    /\ run' = 2
    /\ plan1' = ret.nodes
    /\ pods' = batch
    /\ nodes' = <<>>
    /\ inflight' = NewScheduler(nodeTemplates, provisioners, cluster).inflight
    /\ remainingResources' = NewScheduler(nodeTemplates, provisioners, cluster).remainingResources
    /\ q' = NewQueue(batch)
    /\ errors' = [i \in 1..Len(pods) |-> <<"unset">>]
    /\ pc' = "solve"
    /\ ret' = [nodes |-> <<>>, err |-> "none"]
    /\ recorder' = [PodShouldSchedule |-> <<>>, PodFailedToSchedule |-> <<>>]
    /\ attempts' = 0
    /\ attemptLog' = [i \in 1..Len(pods) |-> <<>>]
    /\ lastAdd' = NoAdd
    /\ UNCHANGED <<nodeTemplates, instanceTypes, provisioners, cluster, batch, ctxCancelled,
                   cancelledAt>>

\* the pods of an earlier Solve call, as they stay in the Pods of the nodes
Earlier(ns) ==
    [n \in 1..Len(ns) |-> [ns[n] EXCEPT !.pods = [k \in 1..Len(@) |-> 0 - @[k]]]]

\* Solve is called a second time on the same Scheduler, with a batch of new
\* pods of the same shapes: s.nodes, s.inflight and s.remainingResources are
\* fields of the Scheduler and Solve does not reset them
SolveAgain ==
    /\ pc = "done"
    /\ run = 1
    /\ run' = 2
    /\ plan1' = ret.nodes
    /\ pods' = batch
    /\ nodes' = Earlier(nodes)
    /\ inflight' = Earlier(inflight)
    /\ q' = NewQueue(batch)
    /\ errors' = [i \in 1..Len(batch) |-> <<"unset">>]
    /\ pc' = "solve"
    /\ ret' = [nodes |-> <<>>, err |-> "none"]
    /\ recorder' = [PodShouldSchedule |-> <<>>, PodFailedToSchedule |-> <<>>]
    /\ attempts' = 0
    /\ attemptLog' = [i \in 1..Len(batch) |-> <<>>]
    /\ lastAdd' = NoAdd
    /\ UNCHANGED <<nodeTemplates, instanceTypes, provisioners, cluster, batch, remainingResources,
                   ctxCancelled, cancelledAt>>

(***************************************************************************)
(* node.go: NodeController.Reconcile                                       *)
(***************************************************************************)
NodeNames == {"node-1", "node-2"}

\* what c.kubeClient.Get returns as its error: nil, a NotFound status error,
\* or another error
GetErrors == {"nil", "NotFound", "Timeout", "Forbidden"}

\* errors.IsNotFound(err)
IsNotFound(err) == err = "NotFound"

\* the outcomes Get can have for a name: the node or NotFound, as the API
\* server holds it, or a failure of the request
GetOutcomes(name) ==
    {IF name \in apiNodes THEN "nil" ELSE "NotFound"} \cup {"Timeout", "Forbidden"}

EmptyResult == [Requeue |-> FALSE, RequeueAfter |-> "0"]

ReconcileCallsDeleteOnError(calls, name, err) ==
    IF err # "nil"
    THEN Append(calls, [op |-> "deleteNode", arg |-> name])
    ELSE Append(calls, [op |-> "updateNode", arg |-> name])

\* the calls on c.cluster after Reconcile for the node name, when Get
\* returned err
ReconcileCalls(calls, name, err) ==
    IF err # "nil"
    THEN IF IsNotFound(err)
         THEN Append(calls, [op |-> "deleteNode", arg |-> name])
         ELSE calls
    ELSE Append(calls, [op |-> "updateNode", arg |-> name])

\* the reconcile.Result and the error Reconcile returns
ReconcileReturn(err) ==
    IF err # "nil"
    THEN IF IsNotFound(err)
         THEN [result |-> EmptyResult, err |-> "nil"]
         ELSE [result |-> EmptyResult, err |-> err]
    ELSE [result |-> [Requeue |-> TRUE, RequeueAfter |-> "stateRetryPeriod"], err |-> "nil"]

NotReconciled == [req |-> "", get |-> "none", result |-> EmptyResult, err |-> "none"]

RecIdle ==
    /\ apiNodes = {}
    /\ clusterCalls = <<>>
    /\ reconciled = NotReconciled

\* the controller runtime calls Reconcile for a node name
Reconcile ==
    \E name \in NodeNames :
        \E err \in GetOutcomes(name) :
            /\ Len(ReconcileCalls(clusterCalls, name, err)) <= MaxCalls
            /\ clusterCalls' = ReconcileCalls(clusterCalls, name, err)
            /\ reconciled' = [req |-> name, get |-> err,
                              result |-> ReconcileReturn(err).result,
                              err |-> ReconcileReturn(err).err]
            /\ UNCHANGED apiNodes

\* a Node object is created in, or deleted from, the API server
NodeCreated ==
    \E name \in NodeNames \ apiNodes :
        /\ apiNodes' = apiNodes \cup {name}
        /\ UNCHANGED <<clusterCalls, reconciled>>

NodeDeleted ==
    \E name \in apiNodes :
        /\ apiNodes' = apiNodes \ {name}
        /\ UNCHANGED <<clusterCalls, reconciled>>

(***************************************************************************)
(* Pure-function specification: the inputs are drawn in the initial state  *)
(* and the function is applied to them                                     *)
(***************************************************************************)
FnIdle ==
    /\ fnOp = "none"
    /\ fnArgs = <<>>
    /\ fnRes = <<>>

HPIdle == HPInit

SchedIdle ==
    Constructed(<<Template("t1", "p1")>>, CHOOSE s \in SortedByPrice(InstanceTypeCatalog) : TRUE,
                <<>>, <<>>, <<>>)

\* lists of instance types, cheapest first or not, and remaining budgets
SeqsUpTo(S, n) == UNION {[1..k -> S] : k \in 0..n}
InstanceTypeLists == SeqsUpTo(InstanceTypeCatalog, MaxTypes)
RemainingLists ==
    UNION {[D -> {0, 2, 4, 8}] : D \in SUBSET Resources}

\* the ledger a new HostPortUsage holds after Add was called for the pods ps
RECURSIVE LedgerAfter(_)
LedgerAfter(ps) ==
    IF ps = <<>> THEN <<>>
    ELSE AddReserved(LedgerAfter(SubSeq(ps, 1, Len(ps) - 1)), ps[Len(ps)])

Ledgers == {LedgerAfter(ps) : ps \in SeqsUpTo(AddPods, MaxReserved - 1)}

\* the nodes of a cluster snapshot: without the provisioner-name label,
\* launched for p1 or p2, or launched for a provisioner that is gone
ClusterNodeKinds ==
    { ClusterNode("", RL(4, 4), RL(4, 4)),
      ClusterNode("p1", RL(6, 4), RL(2, 4)),
      ClusterNode("p1", RL(2, 2), RL(2, 2)),
      ClusterNode("p2", RL(4, 4), RL(3, 4)),
      ClusterNode("gone", RL(4, 4), RL(4, 4)) }

FnInit ==
    /\ fnRes = <<>>
    /\ \/ /\ fnOp = "matches"
          /\ fnArgs \in Entries \X Entries
       \/ /\ fnOp = "filterByRemainingResources"
          /\ fnArgs \in InstanceTypeLists \X RemainingLists
       \/ /\ fnOp = "Add"
          /\ fnArgs \in Ledgers \X AddPods
       \/ /\ fnOp = "NewScheduler"
          /\ fnArgs \in NodeTemplateLists \X ProvisionerLimits
                          \X SeqsUpTo(ClusterNodeKinds, MaxClusterNodes)

ApplyMatches ==
    /\ fnOp = "matches"
    /\ fnRes = <<>>
    /\ fnRes' = <<matches(fnArgs[1], fnArgs[2]), matches(fnArgs[2], fnArgs[1])>>
    /\ UNCHANGED <<fnOp, fnArgs>>

\* u.Add(pod) on a ledger holding fnArgs[1]: the error and the ledger afterwards
ApplyAdd ==
    /\ fnOp = "Add"
    /\ fnRes = <<>>
    /\ fnRes' = <<AddErr(fnArgs[1], fnArgs[2]), AddReserved(fnArgs[1], fnArgs[2])>>
    /\ UNCHANGED <<fnOp, fnArgs>>

\* NewScheduler(nodeTemplates, provisioners, cluster, ...): s.inflight and
\* s.remainingResources of the scheduler it returns
ApplyNewScheduler ==
    /\ fnOp = "NewScheduler"
    /\ fnRes = <<>>
    /\ fnRes' = <<NewScheduler(fnArgs[1], fnArgs[2], fnArgs[3])>>
    /\ UNCHANGED <<fnOp, fnArgs>>

ApplyFilter ==
    /\ fnOp = "filterByRemainingResources"
    /\ fnRes = <<>>
    /\ fnRes' = <<filterByRemainingResources(fnArgs[1], fnArgs[2])>>
    /\ UNCHANGED <<fnOp, fnArgs>>

(***************************************************************************)
(* Specifications                                                          *)
(***************************************************************************)
LedgerInit == HPInit /\ FnIdle /\ SchedIdle /\ RecIdle
LedgerNext ==
    \/ (AddOriginal /\ UNCHANGED <<fnVars, schedVars, recVars>>)
    \/ (AddCopy /\ UNCHANGED <<fnVars, schedVars, recVars>>)
    \/ (DeletePodOriginal /\ UNCHANGED <<fnVars, schedVars, recVars>>)
    \/ (DeletePodCopy /\ UNCHANGED <<fnVars, schedVars, recVars>>)
    \/ (Copy /\ UNCHANGED <<fnVars, schedVars, recVars>>)
LedgerSpec == LedgerInit /\ [][LedgerNext]_vars

PureInit == FnInit /\ HPIdle /\ SchedIdle /\ RecIdle
PureNext ==
    \/ (ApplyMatches /\ UNCHANGED <<hpVars, schedVars, recVars>>)
    \/ (ApplyFilter /\ UNCHANGED <<hpVars, schedVars, recVars>>)
    \/ (ApplyAdd /\ UNCHANGED <<hpVars, schedVars, recVars>>)
    \/ (ApplyNewScheduler /\ UNCHANGED <<hpVars, schedVars, recVars>>)
PureSpec == PureInit /\ [][PureNext]_vars

Init == SchedInit /\ HPIdle /\ FnIdle /\ RecIdle
Next ==
    \/ (SolveLoop /\ UNCHANGED <<hpVars, fnVars, recVars>>)
    \/ (SolveReturn /\ UNCHANGED <<hpVars, fnVars, recVars>>)
Spec == Init /\ [][Next]_vars

\* Solve runs in its caller's goroutine and is not held up: it takes its steps.
\* Batches of pods that relax, conflict or fail, for one scheduler with two
\* templates, limits and an in-flight node
FairPodShapes ==
    { PodShape(1, 0, <<>>, "", <<>>),
      PodShape(3, 0, <<CP("", 80, "TCP")>>, "", <<>>),
      PodShape(2, 0, <<>>, "", <<"nowhere", "p2">>),
      PodShape(9, 0, <<>>, "", <<"nowhere">>) }

FairInit ==
    /\ HPIdle
    /\ FnIdle
    /\ RecIdle
    /\ \E batchPods \in BatchesOf(FairPodShapes) :
           Constructed(<<Template("t1", "p1"), Template("t2", "p2")>>,
                       CHOOSE s \in SortedByPrice(InstanceTypeCatalog) : TRUE,
                       [p \in {"p1", "p2"} |-> IF p = "p1" THEN [r \in {"cpu"} |-> 4]
                                                ELSE [r \in {"cpu"} |-> 9]],
                       <<ClusterNode("p1", RL(6, 4), RL(2, 4))>>, batchPods)
FairSpec == FairInit /\ [][Next]_vars /\ WF_vars(Next)

\* the same batches, for that scheduler and for one without limits and
\* without in-flight nodes
SmallInit ==
    \/ FairInit
    \/ /\ HPIdle
       /\ FnIdle
       /\ RecIdle
       /\ \E batchPods \in BatchesOf(FairPodShapes) :
              Constructed(<<Template("t1", "p1"), Template("t2", "p2")>>,
                          CHOOSE s \in SortedByPrice(InstanceTypeCatalog) : TRUE,
                          <<>>, <<>>, batchPods)

\* Solve for the schedulers of SmallInit
SmallSpec == SmallInit /\ [][Next]_vars

\* Solve while the caller may cancel the context
CancelNext ==
    \/ (SolveLoop /\ UNCHANGED <<hpVars, fnVars, recVars>>)
    \/ (SolveReturn /\ UNCHANGED <<hpVars, fnVars, recVars>>)
    \/ (CancelContext /\ UNCHANGED <<hpVars, fnVars, recVars>>)
CancelSpec == SmallInit /\ [][CancelNext]_vars

\* Solve, then Solve again from the same scheduler state on the same batch
ReplayNext ==
    \/ (SolveLoop /\ UNCHANGED <<hpVars, fnVars, recVars>>)
    \/ (SolveReturn /\ UNCHANGED <<hpVars, fnVars, recVars>>)
    \/ (Replay /\ UNCHANGED <<hpVars, fnVars, recVars>>)
ReplaySpec == SmallInit /\ [][ReplayNext]_vars

\* Solve, then Solve again on the same Scheduler
ReuseNext ==
    \/ (SolveLoop /\ UNCHANGED <<hpVars, fnVars, recVars>>)
    \/ (SolveReturn /\ UNCHANGED <<hpVars, fnVars, recVars>>)
    \/ (SolveAgain /\ UNCHANGED <<hpVars, fnVars, recVars>>)

\* shorter batches for the schedulers of SmallInit: the second call adds its
\* nodes to those of the first
ReuseInit ==
    /\ HPIdle
    /\ FnIdle
    /\ RecIdle
    /\ \E batchPods \in BatchesUpTo(FairPodShapes, MaxPods - 1) :
           \/ Constructed(<<Template("t1", "p1"), Template("t2", "p2")>>,
                          CHOOSE s \in SortedByPrice(InstanceTypeCatalog) : TRUE,
                          [p \in {"p1", "p2"} |-> IF p = "p1" THEN [r \in {"cpu"} |-> 4]
                                                   ELSE [r \in {"cpu"} |-> 9]],
                          <<ClusterNode("p1", RL(6, 4), RL(2, 4))>>, batchPods)
           \/ Constructed(<<Template("t1", "p1"), Template("t2", "p2")>>,
                          CHOOSE s \in SortedByPrice(InstanceTypeCatalog) : TRUE,
                          <<>>, <<>>, batchPods)
ReuseSpec == ReuseInit /\ [][ReuseNext]_vars

\* batches of one pod more, of pods that fill a node, share a node or claim
\* host port 80, for a scheduler without limits and without in-flight nodes
PackPodShapes ==
    { PodShape(5, 1, <<>>, "", <<>>),
      PodShape(1, 0, <<>>, "", <<>>),
      PodShape(3, 0, <<CP("", 80, "TCP")>>, "", <<>>),
      PodShape(1, 0, <<CP("", 80, "TCP")>>, "", <<>>) }

PackInit ==
    /\ HPIdle
    /\ FnIdle
    /\ RecIdle
    /\ \E batchPods \in BatchesUpTo(PackPodShapes, MaxPods + 1) :
           Constructed(<<Template("t1", "p1"), Template("t2", "p2")>>,
                       CHOOSE s \in SortedByPrice(InstanceTypeCatalog) : TRUE,
                       <<>>, <<>>, batchPods)
PackSpec == PackInit /\ [][Next]_vars

\* the schedulers of SmallInit, and one that was given no node template
\* because no provisioner exists
BareInit ==
    \/ SmallInit
    \/ /\ HPIdle
       /\ FnIdle
       /\ RecIdle
       /\ \E batchPods \in BatchesOf(FairPodShapes) :
              Constructed(<<>>, CHOOSE s \in SortedByPrice(InstanceTypeCatalog) : TRUE,
                          <<>>, <<ClusterNode("gone", RL(4, 4), RL(4, 4))>>, batchPods)
BareSpec == BareInit /\ [][Next]_vars

\* the node controller reconciling while nodes come and go
ReconcileInit == RecIdle /\ HPIdle /\ FnIdle /\ SchedIdle
ReconcileNext ==
    \/ (Reconcile /\ UNCHANGED <<hpVars, fnVars, schedVars>>)
    \/ (NodeCreated /\ UNCHANGED <<hpVars, fnVars, schedVars>>)
    \/ (NodeDeleted /\ UNCHANGED <<hpVars, fnVars, schedVars>>)
ReconcileSpec == ReconcileInit /\ [][ReconcileNext]_vars

(***************************************************************************)
(* C1: matches(a, b) holds exactly when the protocols are equal, the ports *)
(* are equal and the IPs are equal or one of them is the unspecified       *)
(* address (0.0.0.0 or ::); matches(a, b) = matches(b, a).                 *)
(***************************************************************************)
UnspecifiedAddress(ip) == ip = ParseIP("0.0.0.0") \/ ip = ParseIP("::")

MatchRule(a, b) ==
    /\ a.protocol = b.protocol
    /\ a.port = b.port
    /\ (a.ip = b.ip \/ UnspecifiedAddress(a.ip) \/ UnspecifiedAddress(b.ip))

C1_MatchesIsMatchRule ==
    (fnOp = "matches" /\ fnRes # <<>>) =>
        /\ fnRes[1] = MatchRule(fnArgs[1], fnArgs[2])
        /\ fnRes[1] = fnRes[2]

\* a pair that matches only because the right-hand IP is unspecified
C1_Witness ==
    /\ fnOp = "matches"
    /\ fnRes # <<>>
    /\ fnRes[1]
    /\ fnArgs[1].ip # fnArgs[2].ip
    /\ ~UnspecifiedAddress(fnArgs[1].ip)
    /\ UnspecifiedAddress(fnArgs[2].ip)

(***************************************************************************)
(* C2: in every reachable ledger, entries of different workloads do not    *)
(* match each other.                                                       *)
(***************************************************************************)
NoCrossPodMatch(reserved) ==
    \A i \in 1..Len(reserved), j \in 1..Len(reserved) :
        reserved[i].podName # reserved[j].podName => ~MatchRule(reserved[i], reserved[j])

C2_NoCrossWorkloadConflict == NoCrossPodMatch(usage) /\ NoCrossPodMatch(copy)

\* both ledgers hold entries of two workloads, and an Add was just refused
C2_Witness ==
    /\ hpRet = "conflict"
    /\ \E i \in 1..Len(usage), j \in 1..Len(usage) : usage[i].podName # usage[j].podName
    /\ \E i \in 1..Len(copy), j \in 1..Len(copy) : copy[i].podName # copy[j].podName

(***************************************************************************)
(* C3: for a provisioner with a limit, the maximum capacities of the       *)
(* viable instance types of its proposed nodes add up to at most the limit *)
(* on every limited resource when there are no in-flight nodes, and its    *)
(* remaining resources never go below zero when they start non-negative.   *)
(***************************************************************************)
LargestCapacity(its, r) ==
    IF its = <<>> THEN 0
    ELSE LET caps == {Quantity(its[i].resources, r) : i \in 1..Len(its)}
         IN  CHOOSE m \in caps : \A c \in caps : c <= m

RECURSIVE SumLargestCapacity(_, _, _)
SumLargestCapacity(ns, p, r) ==
    IF ns = <<>> THEN 0
    ELSE (IF Head(ns).template.provisioner = p
          THEN LargestCapacity(Head(ns).InstanceTypeOptions, r) ELSE 0)
         + SumLargestCapacity(Tail(ns), p, r)

InitialRemaining == NewScheduler(nodeTemplates, provisioners, cluster).remainingResources

C3_LimitsRespected ==
    \A p \in DOMAIN provisioners : \A r \in DOMAIN provisioners[p] :
        /\ inflight = <<>> => SumLargestCapacity(nodes, p, r) <= provisioners[p][r]
        /\ InitialRemaining[p][r] >= 0 => remainingResources[p][r] >= 0

\* a limited provisioner has a proposed node whose budget is used up, and a
\* later node was refused for it
C3_Witness ==
    /\ inflight = <<>>
    /\ \E p \in DOMAIN provisioners : \E r \in DOMAIN provisioners[p] :
           /\ SumLargestCapacity(nodes, p, r) = provisioners[p][r]
           /\ SumLargestCapacity(nodes, p, r) > 0
    /\ \E i \in 1..Len(pods) : \E k \in 1..Len(attemptLog[i]) :
           \E e \in 1..Len(attemptLog[i][k]) : attemptLog[i][k][e] = LimitError

(***************************************************************************)
(* C4: Solve terminates, and it calls add at most                          *)
(* |W| * (1 + the largest number of relaxation steps of a workload) times. *)
(***************************************************************************)
RelaxationDepth(ps) ==
    LET depths == {Len(ps[i].prefs) : i \in 1..Len(ps)}
    IN  CHOOSE d \in depths : \A e \in depths : e <= d

AttemptBound == Len(batch) * (1 + RelaxationDepth(batch))

Placed(i) ==
    \/ \E n \in 1..Len(nodes) : \E k \in 1..Len(nodes[n].pods) : nodes[n].pods[k] = i
    \/ \E n \in 1..Len(inflight) : \E k \in 1..Len(inflight[n].pods) : inflight[n].pods[k] = i

ReportsOf(i) ==
    {k \in 1..Len(recorder.PodFailedToSchedule) : recorder.PodFailedToSchedule[k].pod = i}

C6_TargetOrder ==
    [][attempts' = attempts + 1 =>
          LET pod == pods[lastAdd'.pod]
          IN  /\ lastAdd'.kind \in {"existing", "new"} =>
                     \A i \in 1..Len(inflight) : InFlightAddErr(inflight[i], pod) # "nil"
              /\ lastAdd'.kind = "new" =>
                     \A j \in 1..Len(nodes) : NodeAddErr(nodes[j], pod) # "nil"]_vars

\* a new node was created although an in-flight node and a proposed node exist
C6_Witness ==
    /\ lastAdd.kind = "new"
    /\ inflight # <<>>
    /\ Len(nodes) >= 2

(***************************************************************************)
(* C7: filterByRemainingResources keeps exactly the instance types whose   *)
(* capacity is at most the remaining quantity on every resource of         *)
(* remaining (a resource the instance type lacks counts as zero), in the   *)
(* order of the input, so a cheapest-first list stays cheapest-first.      *)
(***************************************************************************)
WithinRemaining(it, remaining) ==
    \A r \in DOMAIN remaining :
        (IF r \in DOMAIN it.resources THEN it.resources[r] ELSE 0) <= remaining[r]

KeptIndices(its, remaining) == {i \in 1..Len(its) : WithinRemaining(its[i], remaining)}

NthOf(S, n) == CHOOSE i \in S : Cardinality({j \in S : j <= i}) = n

CheapestFirst(its) == \A i, j \in 1..Len(its) : i < j => its[i].price <= its[j].price

C7_FilterKeepsFittingInOrder ==
    (fnOp = "filterByRemainingResources" /\ fnRes # <<>>) =>
        LET its == fnArgs[1]
            remaining == fnArgs[2]
            out == fnRes[1]
            kept == KeptIndices(its, remaining)
        IN  /\ Len(out) = Cardinality(kept)
            /\ \A n \in 1..Len(out) : out[n] = its[NthOf(kept, n)]
            /\ CheapestFirst(its) => CheapestFirst(out)

\* the list loses its middle element; a kept type sits exactly on the budget
\* and another lacks a resource the budget names
C7_Witness ==
    /\ fnOp = "filterByRemainingResources"
    /\ fnRes # <<>>
    /\ Len(fnArgs[1]) = 3
    /\ KeptIndices(fnArgs[1], fnArgs[2]) = {1, 3}
    /\ fnArgs[1][1] # fnArgs[1][3]
    /\ \E r \in DOMAIN fnArgs[2] : r \notin DOMAIN fnArgs[1][1].resources
    /\ \E r \in DOMAIN fnArgs[2] : Quantity(fnArgs[1][3].resources, r) = fnArgs[2][r]

(***************************************************************************)
(* C8: when add creates a new proposed node for provisioner p, the         *)
(* remaining resources of p drop, on every resource tracked for p, by the  *)
(* largest capacity among the instance types still viable on the node      *)
(* after the workload was admitted.                                        *)
(***************************************************************************)
C8_NewNodeSubtractsMax ==
    [][(attempts' = attempts + 1 /\ lastAdd'.kind = "new") =>
          LET node == nodes'[Len(nodes')]
              p == node.template.provisioner
          IN  \A r \in DOMAIN Remaining(remainingResources, p) :
                  remainingResources'[p][r] =
                      remainingResources[p][r] - LargestCapacity(node.InstanceTypeOptions, r)]_vars

\* the new node of a limited provisioner lost its cheapest type on admission,
\* and its largest capacities come from two different instance types
C8_Witness ==
    /\ lastAdd.kind = "new"
    /\ LET node == nodes[Len(nodes)]
           p == node.template.provisioner
       IN  /\ p \in DOMAIN provisioners
           /\ Len(node.InstanceTypeOptions) = 2
           /\ node.InstanceTypeOptions[1] # instanceTypes[1]
           /\ \A i \in 1..2 : \E r \in Resources :
                  Quantity(node.InstanceTypeOptions[i].resources, r)
                      < LargestCapacity(node.InstanceTypeOptions, r)

PlanOf(ns) ==
    [i \in 1..Len(ns) |-> [template |-> ns[i].template, pods |-> ns[i].pods,
                            InstanceTypeOptions |-> ns[i].InstanceTypeOptions]]

RECURSIVE EntriesWithDefaults(_, _)
EntriesWithDefaults(podName, ports) ==
    IF ports = <<>> THEN <<>>
    ELSE LET p == Head(ports)
         IN  (IF p.hostPort = 0 THEN <<>>
              ELSE <<[podName |-> podName,
                      ip |-> ParseIP(IF p.hostIP = "" THEN "0.0.0.0" ELSE p.hostIP),
                      port |-> p.hostPort,
                      protocol |-> IF p.protocol = "" THEN "TCP" ELSE p.protocol]>>)
             \o EntriesWithDefaults(podName, Tail(ports))

C11_EmptyProtocolIsTCP ==
    (fnOp = "Add" /\ fnRes # <<>>) =>
        LET reserved == fnArgs[1]
            pod == fnArgs[2]
            recorded == EntriesWithDefaults(pod.name, pod.ports)
        IN  /\ fnRes[1] = "nil" => fnRes[2] = reserved \o recorded
            /\ (\E i \in 1..Len(recorded), j \in 1..Len(reserved) :
                    MatchRule(recorded[i], reserved[j])) => fnRes[1] = "conflict"

(***************************************************************************)
(* C12: Add is all-or-nothing: when an entry of the workload matches a     *)
(* reserved entry, Add returns an error and the ledger is as it was;       *)
(* otherwise it returns nil and the ledger is the old ledger followed by   *)
(* all entries of the workload.                                            *)
(***************************************************************************)
C12_AddAllOrNothing ==
    (fnOp = "Add" /\ fnRes # <<>>) =>
        LET reserved == fnArgs[1]
            newUsage == getHostPorts(fnArgs[2])
        IN  IF \E i \in 1..Len(newUsage), j \in 1..Len(reserved) :
                   MatchRule(newUsage[i], reserved[j])
            THEN fnRes = <<"conflict", reserved>>
            ELSE fnRes = <<"nil", reserved \o newUsage>>

\* Add was refused for the second entry of a workload whose first entry
\* matches nothing in the ledger
C12_Witness ==
    /\ fnOp = "Add"
    /\ fnRes # <<>>
    /\ fnRes[1] = "conflict"
    /\ LET reserved == fnArgs[1]
           newUsage == getHostPorts(fnArgs[2])
       IN  /\ Len(newUsage) = 2
           /\ reserved # <<>>
           /\ \A j \in 1..Len(reserved) : ~MatchRule(newUsage[1], reserved[j])
           /\ \E j \in 1..Len(reserved) : MatchRule(newUsage[2], reserved[j])

(***************************************************************************)
(* C16: after c = u.Copy(), Add and DeletePod on c leave the entries of u  *)
(* unchanged, and Add and DeletePod on u leave the entries of c unchanged. *)
(***************************************************************************)
C16_CopyIndependent ==
    [][/\ (hpCall'.on = "c" /\ hpCall'.op \in {"Add", "DeletePod"}) => usage' = usage
       /\ (hpCall'.on = "u" /\ hpCall'.op \in {"Add", "DeletePod"}) => copy' = copy]_vars

\* a copy was taken and both ledgers then grew differently, each in an
\* array of its own
C16_Witness ==
    /\ hpCall = [op |-> "Add", on |-> "c"]
    /\ hpRet = "nil"
    /\ Len(usage) >= 2
    /\ Len(copy) >= 2
    /\ usage[1] = copy[1]
    /\ usage[2] # copy[2]
    /\ uSlice.array # cSlice.array

(***************************************************************************)
(* C15: NewScheduler makes an in-flight node of a cluster node exactly     *)
(* when the node carries the provisioner-name label and the label names a  *)
(* known node template; any other node adds no in-flight node and leaves   *)
(* remainingResources as it is; each accepted node reduces the remaining   *)
(* budget of its provisioner by the capacity of the node.                  *)
(***************************************************************************)
Owned(node, templates) ==
    /\ node.label # ""
    /\ \E i \in 1..Len(templates) : templates[i].provisioner = node.label

OwnedIndices(clusterNodes, templates) ==
    {i \in 1..Len(clusterNodes) : Owned(clusterNodes[i], templates)}

RECURSIVE OwnedCapacity(_, _, _, _)
OwnedCapacity(clusterNodes, templates, p, r) ==
    IF clusterNodes = <<>> THEN 0
    ELSE (IF Owned(Head(clusterNodes), templates) /\ Head(clusterNodes).label = p
          THEN Head(clusterNodes).capacity[r] ELSE 0)
         + OwnedCapacity(Tail(clusterNodes), templates, p, r)

C15_InFlightIffOwned ==
    (fnOp = "NewScheduler" /\ fnRes # <<>>) =>
        LET templates == fnArgs[1]
            limits == fnArgs[2]
            clusterNodes == fnArgs[3]
            owned == OwnedIndices(clusterNodes, templates)
            s == fnRes[1]
        IN  /\ Len(s.inflight) = Cardinality(owned)
            /\ \A n \in 1..Len(s.inflight) :
                   s.inflight[n].provisioner = clusterNodes[NthOf(owned, n)].label
            /\ DOMAIN s.remainingResources =
                   (DOMAIN limits) \cup {clusterNodes[i].label : i \in owned}
            /\ \A p \in DOMAIN s.remainingResources :
                   IF p \in DOMAIN limits
                   THEN /\ DOMAIN s.remainingResources[p] = DOMAIN limits[p]
                        /\ \A r \in DOMAIN limits[p] :
                               s.remainingResources[p][r] =
                                   limits[p][r] - OwnedCapacity(clusterNodes, templates, p, r)
                   ELSE DOMAIN s.remainingResources[p] = {}

\* two nodes of a limited provisioner were accepted, and a node was skipped
\* whose label names a provisioner that has a limit but no node template
C15_Witness ==
    /\ fnOp = "NewScheduler"
    /\ fnRes # <<>>
    /\ Len(fnRes[1].inflight) = 2
    /\ fnRes[1].inflight[1].provisioner = fnRes[1].inflight[2].provisioner
    /\ fnRes[1].inflight[1].provisioner \in DOMAIN fnArgs[2]
    /\ \E i \in 1..Len(fnArgs[3]) :
           /\ ~Owned(fnArgs[3][i], fnArgs[1])
           /\ fnArgs[3][i].label \in DOMAIN fnArgs[2]

(***************************************************************************)
(* C13: the list of proposed nodes the scheduler holds, and the list Solve *)
(* returns, are in creation order: a node created earlier precedes every   *)
(* node created later.                                                     *)
(***************************************************************************)
InCreationOrder(ns) == \A i, j \in 1..Len(ns) : i < j => ns[i].id < ns[j].id

C13_CreationOrder ==
    /\ InCreationOrder(nodes)
    /\ pc = "done" => InCreationOrder(ret.nodes)

(***************************************************************************)
(* C14: a Solve call on a Scheduler does not depend on earlier Solve calls *)
(* on it: the second call starts from the remaining budget and the empty   *)
(* plan NewScheduler set up, and the plan it returns holds no node, and no *)
(* workload, of the first call.                                            *)
(***************************************************************************)
C14_NoStateBetweenSolves ==
    /\ (run = 2 /\ pc = "solve" /\ attempts = 0) =>
           (nodes = <<>> /\ remainingResources = InitialRemaining)
    /\ (run = 2 /\ pc = "done") =>
           \A n \in 1..Len(ret.nodes) : \A k \in 1..Len(ret.nodes[n].pods) :
               ret.nodes[n].pods[k] > 0

(***************************************************************************)
(* C17: when add admits a workload to an already-proposed node n, every    *)
(* proposed node that had strictly fewer admitted workloads than n at the  *)
(* start of the attempt rejects the workload.                              *)
(***************************************************************************)
NodeWithId(ns, id) == ns[CHOOSE i \in 1..Len(ns) : ns[i].id = id]

C17_LeastFilledAccepting ==
    [][(attempts' = attempts + 1 /\ lastAdd'.kind = "existing") =>
          LET pod == pods[lastAdd'.pod]
              target == NodeWithId(nodes, lastAdd'.target)
          IN  \A m \in 1..Len(nodes) :
                  Len(nodes[m].pods) < Len(target.pods) => NodeAddErr(nodes[m], pod) # "nil"]_vars

\* a workload went to a proposed node although a node with fewer workloads
\* exists: that node rejects it
C17_Witness ==
    /\ lastAdd.kind = "existing"
    /\ LET pod == pods[lastAdd.pod]
           target == NodeWithId(nodes, lastAdd.target)
       IN  \E m \in 1..Len(nodes) :
               /\ Len(nodes[m].pods) < Len(target.pods) - 1
               /\ NodeAddErr(nodes[m], pod) # "nil"

(***************************************************************************)
(* C18: a new node is created from the first template, in declared order,  *)
(* whose fresh node accepts the workload. A template whose provisioner has *)
(* a limit that no instance type fits is skipped without constructing a    *)
(* node and contributes the limit error, and the next template is still    *)
(* tried; a template whose provisioner has no limit entry is offered all   *)
(* instance types. As claimed the limit error reads "all instance types    *)
(* exceed provisioner limits"; the code's text is "all available instance  *)
(* types exceed provisioner limits" (as amended).                          *)
(***************************************************************************)
LimitedTemplate(k) == nodeTemplates[k].provisioner \in DOMAIN remainingResources

ViableFor(k) ==
    IF LimitedTemplate(k)
    THEN SelectSeq(instanceTypes,
                   LAMBDA it : WithinRemaining(it, remainingResources[nodeTemplates[k].provisioner]))
    ELSE instanceTypes

SkippedForLimit(k) == LimitedTemplate(k) /\ ViableFor(k) = <<>>

FreshNode(k) == NewNode(nodeTemplates[k], ViableFor(k), Len(nodes) + 1)

FreshAccepts(k, pod) == ~SkippedForLimit(k) /\ NodeAddErr(FreshNode(k), pod) = "nil"

TemplateStep(limitError) ==
    (attempts' = attempts + 1 /\ lastAdd'.kind \in {"new", "error"}) =>
        LET podIdx == lastAdd'.pod
            pod == pods[podIdx]
            k == lastAdd'.target
        IN  /\ lastAdd'.kind = "new" =>
                   /\ FreshAccepts(k, pod)
                   /\ \A e \in 1..(k - 1) : ~FreshAccepts(e, pod)
                   /\ Len(nodes') = Len(nodes) + 1
                   /\ nodes'[Len(nodes')] = NodeAdded(FreshNode(k), podIdx, pod)
            /\ lastAdd'.kind = "error" =>
                   /\ \A e \in 1..Len(nodeTemplates) : ~FreshAccepts(e, pod)
                   /\ Len(nodes') = Len(nodes)
                   /\ errors'[podIdx] =
                          [e \in 1..Len(nodeTemplates) |->
                              IF SkippedForLimit(e) THEN limitError
                              ELSE NodeAddErr(FreshNode(e), pod)]

C18_TemplatesInOrderAsClaimed ==
    [][TemplateStep("all instance types exceed provisioner limits")]_vars

C18_TemplatesInOrder ==
    [][TemplateStep("all available instance types exceed provisioner limits")]_vars

\* the node was created from the second template after the first was skipped
\* because the budget of its provisioner is used up
C18_Witness ==
    /\ lastAdd.kind = "new"
    /\ lastAdd.target = 2
    /\ SkippedForLimit(1)
    /\ nodes[Len(nodes)].template = nodeTemplates[2]
    /\ nodes[Len(nodes)].pods = <<lastAdd.pod>>

(***************************************************************************)
(* C19: when Solve ends, every workload of the batch is either in the      *)
(* admitted list of exactly one node, in-flight or proposed, or reported   *)
(* as failed: none is both, none is on two nodes, none is lost.            *)
(***************************************************************************)
PositionsIn(ns, kind, i) ==
    UNION { {<<kind, n, k>> : k \in {e \in 1..Len(ns[n].pods) : ns[n].pods[e] = i}}
            : n \in 1..Len(ns) }

AdmittedAt(i) == PositionsIn(nodes, "proposed", i) \cup PositionsIn(inflight, "inflight", i)

C19_PlacedOnceOrFailed ==
    pc = "done" =>
        \A i \in 1..Len(batch) :
            \/ Cardinality(AdmittedAt(i)) = 1 /\ ReportsOf(i) = {}
            \/ Cardinality(AdmittedAt(i)) = 0 /\ ReportsOf(i) # {}

(***************************************************************************)
(* C20: a placement attempt that fails leaves the set of proposed nodes    *)
(* and the remainingResources of every provisioner as they were; a         *)
(* placement on an in-flight or an already-proposed node appends no node   *)
(* and leaves remainingResources as it was; every proposed node of the     *)
(* plan has at least one admitted workload.                                *)
(***************************************************************************)
NodeSet(ns) == {ns[i] : i \in 1..Len(ns)}

NodeIds(ns) == {ns[i].id : i \in 1..Len(ns)}

C20_FailedAttemptChangesNothing ==
    [][attempts' = attempts + 1 =>
          /\ lastAdd'.kind = "error" =>
                 /\ NodeSet(nodes') = NodeSet(nodes)
                 /\ Len(nodes') = Len(nodes)
                 /\ inflight' = inflight
                 /\ remainingResources' = remainingResources
          /\ lastAdd'.kind \in {"inflight", "existing"} =>
                 /\ NodeIds(nodes') = NodeIds(nodes)
                 /\ Len(nodes') = Len(nodes)
                 /\ remainingResources' = remainingResources
          /\ \A n \in 1..Len(nodes') : nodes'[n].pods # <<>>]_vars

\* an attempt failed after a node was constructed for a template of a
\* limited provisioner and rejected the workload, with nodes in the plan
C20_Witness ==
    /\ lastAdd.kind = "error"
    /\ nodes # <<>>
    /\ \E k \in 1..Len(nodeTemplates) :
           /\ LimitedTemplate(k)
           /\ ~SkippedForLimit(k)
           /\ errors[lastAdd.pod][k] # LimitError

(***************************************************************************)
(* C21: Reconcile maps the outcome of fetching the node to exactly one     *)
(* cluster-state action: not found: it calls deleteNode for the name and   *)
(* returns no error and no requeue; any other fetch error: it returns that *)
(* error and calls neither deleteNode nor updateNode; fetched: it calls    *)
(* updateNode and asks to be requeued after the state retry period.        *)
(***************************************************************************)
C21_ReconcileOutcome ==
    [][apiNodes' = apiNodes =>
          LET r == reconciled'
              made == SubSeq(clusterCalls', Len(clusterCalls) + 1, Len(clusterCalls'))
          IN  /\ SubSeq(clusterCalls', 1, Len(clusterCalls)) = clusterCalls
              /\ r.get = "NotFound" =>
                     /\ made = <<[op |-> "deleteNode", arg |-> r.req]>>
                     /\ r.err = "nil"
                     /\ ~r.result.Requeue
                     /\ r.result.RequeueAfter = "0"
              /\ r.get \in {"Timeout", "Forbidden"} =>
                     /\ made = <<>>
                     /\ r.err = r.get
              /\ r.get = "nil" =>
                     /\ made = <<[op |-> "updateNode", arg |-> r.req]>>
                     /\ r.err = "nil"
                     /\ r.result.Requeue
                     /\ r.result.RequeueAfter = "stateRetryPeriod"]_vars

\* a node was updated and, once gone, deleted from the cluster state, and a
\* later Reconcile for it whose fetch failed left the cluster state alone
C21_Witness ==
    /\ reconciled.get = "Timeout"
    /\ reconciled.err = "Timeout"
    /\ clusterCalls = <<[op |-> "updateNode", arg |-> reconciled.req],
                        [op |-> "deleteNode", arg |-> reconciled.req]>>

====
